---- MODULE Spec2Model ----
(***************************************************************************)
(* Task-Analyser: the scoring engine (Backend/tasks/scoring.py) and the    *)
(* request handlers that drive it (Backend/tasks/views.py).                *)
(*                                                                         *)
(* Python values are tagged records [k |-> kind, v |-> payload]:           *)
(*   str   : a sequence of one-character strings                           *)
(*   int   : an integer                                                    *)
(*   float : an integer number of tenths (25 is 2.5)                       *)
(*   bool  : a BOOLEAN                                                     *)
(*   none  : None                                                          *)
(*   list  : a sequence of values                                          *)
(*   date  : a day number                                                  *)
(*   missing : the key is absent from the mapping                          *)
(***************************************************************************)
EXTENDS Integers, Sequences, FiniteSets, TLC

VARIABLES
    pc,          \* position of the running operation
    tasks,       \* the task list handed to detect_circular_dependencies
    visited,     \* detect_circular_dependencies: visited
    rec_stack,   \* detect_circular_dependencies: rec_stack
    cycles,      \* detect_circular_dependencies: cycles
    warnings,    \* detect_circular_dependencies: warnings
    frames,      \* the active calls of dfs, outermost first
    root,        \* index of the next task the root loop takes
    expanded,    \* the titles whose dependency loop was entered, in order
    started,     \* the task indices the root loop called dfs for, in order
    report,      \* what detect_circular_dependencies returned
    in_task,     \* the task record handed to the scoring functions
    in_strategy, \* the strategy name of the call or of the request
    in_weights,  \* custom_weights: None or a mapping
    clock,       \* the day date.today() returns
    reads,       \* the days date.today() returned to the call under way
    sanitized,   \* sanitize_task_data(task)
    resanitized, \* sanitize_task_data(sanitized)
    score,       \* calculate_priority's result, in hundredths
    reasons,     \* explain_choice's result
    request,     \* the validated task list of the request being handled
    response     \* the response of the handler

dvars == <<tasks, visited, rec_stack, cycles, warnings, frames, root,
           expanded, started>>
cvars == <<in_task, in_strategy, in_weights, clock, reads, sanitized,
           resanitized, score, reasons>>
fvars == <<request, response>>
vars == <<pc, tasks, visited, rec_stack, cycles, warnings, frames, root,
          expanded, started, report, in_task, in_strategy, in_weights, clock,
          reads, sanitized, resanitized, score, reasons, request, response>>

----------------------------------------------------------------------------
(* Python values *)

PyStr(s) == [k |-> "str", v |-> s]
PyInt(n) == [k |-> "int", v |-> n]
PyFloat(t) == [k |-> "float", v |-> t]
PyBool(b) == [k |-> "bool", v |-> b]
PyNone == [k |-> "none", v |-> 0]
PyList(s) == [k |-> "list", v |-> s]
PyDate(d) == [k |-> "date", v |-> d]
Missing == [k |-> "missing", v |-> 0]

Range(s) == {s[i] : i \in DOMAIN s}

\* dict.get(key, default) on a field of a mapping
Get(field, default) == IF field.k = "missing" THEN default ELSE field

\* hash(x) succeeds: lists are unhashable
Hashable(x) == x.k # "list"

----------------------------------------------------------------------------
(* Python's built-in conversions, as sanitize_task_data uses them *)

\* bool(x)
Truthy(x) ==
    CASE x.k = "str" -> x.v # <<>>
      [] x.k = "int" -> x.v # 0
      [] x.k = "float" -> x.v # 0
      [] x.k = "bool" -> x.v
      [] x.k = "list" -> x.v # <<>>
      [] x.k = "date" -> TRUE
      [] OTHER -> FALSE

\* the characters str.strip() removes
IsSpace(c) == c \in {" ", "\t", "\n"}

\* s.strip()
Strip(s) ==
    LET keep == {i \in DOMAIN s : ~IsSpace(s[i])}
    IN  IF keep = {} THEN <<>>
        ELSE SubSeq(s, CHOOSE i \in keep : \A j \in keep : i <= j,
                       CHOOSE i \in keep : \A j \in keep : j <= i)

Digits == <<"0", "1", "2", "3", "4", "5", "6", "7", "8", "9">>
IsDigit(c) == \E d \in DOMAIN Digits : Digits[d] = c
DigitValue(c) == (CHOOSE d \in DOMAIN Digits : Digits[d] = c) - 1

RECURSIVE NatDigits(_)
\* the decimal digits of a natural number
NatDigits(n) ==
    IF n < 10 THEN <<Digits[n + 1]>>
    ELSE NatDigits(n \div 10) \o <<Digits[(n % 10) + 1]>>

RECURSIVE DigitsValue(_)
\* the number a non-empty run of digits denotes
DigitsValue(s) ==
    IF s = <<>> THEN 0
    ELSE 10 * DigitsValue(SubSeq(s, 1, Len(s) - 1)) + DigitValue(s[Len(s)])

Abs(n) == IF n < 0 THEN -n ELSE n
\* str(n) of an int
IntText(n) == (IF n < 0 THEN <<"-">> ELSE <<>>) \o NatDigits(Abs(n))
\* str(x) of a float, x in tenths
FloatText(t) ==
    (IF t < 0 THEN <<"-">> ELSE <<>>)
        \o NatDigits(Abs(t) \div 10) \o <<".">> \o NatDigits(Abs(t) % 10)

RECURSIVE Repr(_)
RECURSIVE JoinReprs(_)
\* repr(x): what str() of a list shows of its elements
Repr(x) ==
    CASE x.k = "str" -> <<"'">> \o x.v \o <<"'">>
      [] x.k = "int" -> IntText(x.v)
      [] x.k = "float" -> FloatText(x.v)
      [] x.k = "bool" -> IF x.v THEN <<"T", "r", "u", "e">>
                         ELSE <<"F", "a", "l", "s", "e">>
      [] x.k = "none" -> <<"N", "o", "n", "e">>
      [] x.k = "list" -> <<"[">> \o JoinReprs(x.v) \o <<"]">>

\* ", ".join(repr(e) for e in s)
JoinReprs(s) ==
    IF s = <<>> THEN <<>>
    ELSE IF Len(s) = 1 THEN Repr(s[1])
    ELSE Repr(s[1]) \o <<",", " ">> \o JoinReprs(Tail(s))

\* str(x)
StrOf(x) == IF x.k = "str" THEN x.v ELSE Repr(x)

\* the sign and the unsigned rest of a numeric literal
SignOf(s) == IF s # <<>> /\ s[1] = "-" THEN -1 ELSE 1
Unsigned(s) == IF s # <<>> /\ s[1] \in {"-", "+"} THEN Tail(s) ELSE s
AllDigits(s) == \A i \in DOMAIN s : IsDigit(s[i])

\* int(x) of a str: surrounding whitespace, a sign, digits
ParseInt(s) ==
    LET u == Unsigned(Strip(s))
    IN  IF u # <<>> /\ AllDigits(u)
        THEN [ok |-> TRUE, v |-> SignOf(Strip(s)) * DigitsValue(u)]
        ELSE [ok |-> FALSE, v |-> 0]

\* float(x) of a str, in tenths: surrounding whitespace, a sign, digits
\* with at most one point (literals with more than one decimal, an
\* exponent, inf or nan are outside the model's strings)
ParseFloat(s) ==
    LET u == Unsigned(Strip(s))
        dots == {i \in DOMAIN u : u[i] = "."}
        dot == IF dots = {} THEN Len(u) + 1 ELSE CHOOSE i \in dots : TRUE
        whole == SubSeq(u, 1, dot - 1)
        frac == SubSeq(u, dot + 1, Len(u))
    IN  IF /\ Cardinality(dots) <= 1 /\ AllDigits(whole) /\ AllDigits(frac)
           /\ Len(whole) + Len(frac) > 0 /\ Len(frac) <= 1
        THEN [ok |-> TRUE,
              v |-> SignOf(Strip(s))
                      * (10 * DigitsValue(whole) + DigitsValue(frac))]
        ELSE [ok |-> FALSE, v |-> 0]

\* float(x), in tenths; ok is FALSE where Python raises ValueError or
\* TypeError
ToFloat(x) ==
    CASE x.k = "float" -> [ok |-> TRUE, v |-> x.v]
      [] x.k = "int" -> [ok |-> TRUE, v |-> 10 * x.v]
      [] x.k = "bool" -> [ok |-> TRUE, v |-> IF x.v THEN 10 ELSE 0]
      [] x.k = "str" -> ParseFloat(x.v)
      [] OTHER -> [ok |-> FALSE, v |-> 0]

\* int(x): a float is truncated towards zero
ToInt(x) ==
    CASE x.k = "int" -> [ok |-> TRUE, v |-> x.v]
      [] x.k = "float" ->
            [ok |-> TRUE,
             v |-> IF x.v < 0 THEN -((-x.v) \div 10) ELSE x.v \div 10]
      [] x.k = "bool" -> [ok |-> TRUE, v |-> IF x.v THEN 1 ELSE 0]
      [] x.k = "str" -> ParseInt(x.v)
      [] OTHER -> [ok |-> FALSE, v |-> 0]

Max(a, b) == IF a >= b THEN a ELSE b
Min(a, b) == IF a <= b THEN a ELSE b

\* a number's value in tenths (a bool counts as 0 or 1)
Tenths(x) ==
    CASE x.k = "float" -> x.v
      [] x.k = "int" -> 10 * x.v
      [] x.k = "bool" -> IF x.v THEN 10 ELSE 0

IsNumber(x) == x.k \in {"int", "float", "bool"}

RECURSIVE PyEq(_, _)
\* x == y
PyEq(x, y) ==
    IF IsNumber(x) /\ IsNumber(y) THEN Tenths(x) = Tenths(y)
    ELSE IF x.k = "list" /\ y.k = "list"
         THEN /\ Len(x.v) = Len(y.v)
              /\ \A i \in DOMAIN x.v : PyEq(x.v[i], y.v[i])
    ELSE x = y

----------------------------------------------------------------------------
(* sanitize_task_data *)

UntitledTask == PyStr(<<"U", "n", "t", "i", "t", "l", "e", "d", " ",
                        "T", "a", "s", "k">>)

\* 1. TITLE
SanitizeTitle(title) ==
    IF ~Truthy(Get(title, PyNone)) \/ Strip(StrOf(title)) = <<>>
    THEN UntitledTask ELSE title

\* 2. DUE_DATE
SanitizeDueDate(due) ==
    IF Get(due, PyNone).k \notin {"none", "date"} THEN PyNone ELSE due

\* 3. ESTIMATED_HOURS
SanitizeHours(hours) ==
    LET f == ToFloat(Get(hours, PyInt(0)))
    IN  IF ~f.ok THEN PyInt(0)
        ELSE IF f.v < 0 THEN PyInt(0) ELSE PyFloat(f.v)

\* 4. IMPORTANCE
SanitizeImportance(importance) ==
    LET n == ToInt(Get(importance, PyInt(5)))
    IN  IF ~n.ok THEN PyInt(5) ELSE PyInt(Max(1, Min(10, n.v)))

RECURSIVE CleanDepsRepr(_)
\* the comprehension with repr(d) in the place of str(d)
CleanDepsRepr(ds) ==
    IF ds = <<>> THEN <<>>
    ELSE (IF Truthy(ds[1]) /\ Strip(Repr(ds[1])) # <<>>
          THEN <<PyStr(Strip(Repr(ds[1])))>> ELSE <<>>)
            \o CleanDepsRepr(Tail(ds))

RECURSIVE CleanDeps(_)
\* the entries the comprehension keeps, stripped
CleanDeps(ds) ==
    IF ds = <<>> THEN <<>>
    ELSE (IF Truthy(ds[1]) /\ Strip(StrOf(ds[1])) # <<>>
          THEN <<PyStr(Strip(StrOf(ds[1])))>> ELSE <<>>)
            \o CleanDeps(Tail(ds))

\* 5. DEPENDENCIES
SanitizeDeps(deps) ==
    IF Get(deps, PyList(<<>>)).k # "list" THEN PyList(<<>>)
    ELSE PyList(CleanDeps(Get(deps, PyList(<<>>)).v))

sanitize_task_data(task) ==
    [task EXCEPT !.title = SanitizeTitle(@),
                 !.due_date = SanitizeDueDate(@),
                 !.estimated_hours = SanitizeHours(@),
                 !.importance = SanitizeImportance(@),
                 !.dependencies = SanitizeDeps(@)]

----------------------------------------------------------------------------
(* Component scores, in tenths; today is the value date.today() returned *)

\* calculate_urgency_score
calculate_urgency_score(task, today) ==
    LET due == Get(task.due_date, PyNone)
        days_left == due.v - today
    IN  IF due.k = "none" THEN 30
        ELSE IF days_left < 0 THEN
            (IF Abs(days_left) >= 7 THEN 100
             ELSE Min(100, 100 + Abs(days_left)))
        ELSE IF days_left = 0 THEN 100
        ELSE IF days_left = 1 THEN 90
        ELSE IF days_left <= 3 THEN 80
        ELSE IF days_left <= 7 THEN 60
        ELSE IF days_left <= 14 THEN 40
        ELSE IF days_left <= 30 THEN 20
        ELSE 10

\* calculate_effort_score
calculate_effort_score(task) ==
    LET hours == Tenths(Get(task.estimated_hours, PyInt(0)))
    IN  IF hours = 0 THEN 50
        ELSE IF hours <= 10 THEN 100
        ELSE IF hours <= 30 THEN 80
        ELSE IF hours <= 60 THEN 60
        ELSE IF hours <= 120 THEN 40
        ELSE 20

\* calculate_dependency_score
calculate_dependency_score(task) ==
    LET dep_count == Len(Get(task.dependencies, PyList(<<>>)).v)
    IN  IF dep_count = 0 THEN 0
        ELSE IF dep_count = 1 THEN 30
        ELSE IF dep_count = 2 THEN 60
        ELSE IF dep_count = 3 THEN 80
        ELSE 100

\* task.get("importance", 5), in tenths
ImportanceScore(task) == Tenths(Get(task.importance, PyInt(5)))

\* round(final, 2): thousandths to hundredths, a tie going to the even
\* neighbour
Round2(x) ==
    LET q == x \div 10
        r == x % 10
    IN  IF r < 5 THEN q
        ELSE IF r > 5 THEN q + 1
        ELSE IF q % 2 = 0 THEN q ELSE q + 1

----------------------------------------------------------------------------
(* Strategies: weights in hundredths, scores in hundredths *)

WeightKeys == {"urgency", "importance", "effort", "dependencies"}

\* weights.get(key, default)
WeightGet(weights, key, default) ==
    IF key \in DOMAIN weights THEN weights[key] ELSE default

\* the weights of smart_balance when custom_weights is None
DefaultWeights == [urgency |-> 35, importance |-> 35, effort |-> 15,
                   dependencies |-> 15]

\* smart_balance reading every missing key as 0
calculate_smart_balance_zero_default(task, custom_weights, today) ==
    LET weights == IF custom_weights.k = "none" THEN DefaultWeights
                   ELSE custom_weights.v
    IN  Round2(calculate_urgency_score(task, today)
                   * WeightGet(weights, "urgency", 0)
               + ImportanceScore(task) * WeightGet(weights, "importance", 0)
               + calculate_effort_score(task)
                   * WeightGet(weights, "effort", 0)
               + calculate_dependency_score(task)
                   * WeightGet(weights, "dependencies", 0))

\* calculate_smart_balance; custom_weights is None or a mapping
calculate_smart_balance(task, custom_weights, today) ==
    LET weights == IF custom_weights.k = "none" THEN DefaultWeights
                   ELSE custom_weights.v
    IN  Round2(calculate_urgency_score(task, today)
                   * WeightGet(weights, "urgency", 35)
               + ImportanceScore(task) * WeightGet(weights, "importance", 35)
               + calculate_effort_score(task)
                   * WeightGet(weights, "effort", 15)
               + calculate_dependency_score(task)
                   * WeightGet(weights, "dependencies", 15))

\* calculate_fastest_wins
calculate_fastest_wins(task, today) ==
    Round2(calculate_effort_score(task) * 70
           + ImportanceScore(task) * 20
           + calculate_urgency_score(task, today) * 10)

\* calculate_high_impact
calculate_high_impact(task, today) ==
    Round2(ImportanceScore(task) * 80
           + calculate_dependency_score(task) * 10
           + calculate_urgency_score(task, today) * 10)

\* calculate_deadline_driven
calculate_deadline_driven(task, today) ==
    Round2(calculate_urgency_score(task, today) * 80
           + ImportanceScore(task) * 15
           + calculate_effort_score(task) * 5)

\* calculate_priority: sanitize, then route on the strategy name
calculate_priority(task, strategy, custom_weights, today) ==
    LET t == sanitize_task_data(task)
    IN  IF strategy = "fastest_wins" THEN calculate_fastest_wins(t, today)
        ELSE IF strategy = "high_impact" THEN calculate_high_impact(t, today)
        ELSE IF strategy = "deadline_driven"
             THEN calculate_deadline_driven(t, today)
        ELSE calculate_smart_balance(t, custom_weights, today)

----------------------------------------------------------------------------
(* explain_choice: each reason is <<prefix, text, number>> *)

\* strategy_context.get(strategy, "")
StrategyPrefix(strategy) ==
    CASE strategy = "fastest_wins" -> "Quick Win Focus: "
      [] strategy = "high_impact" -> "Impact Focus: "
      [] strategy = "deadline_driven" -> "Deadline Focus: "
      [] OTHER -> ""

\* explain_choice raises TypeError on a field of the wrong type: len() of
\* the dependencies, due - date.today(), the comparisons of importance and
\* of hours
ExplainError(task) ==
    \/ Get(task.dependencies, PyList(<<>>)).k \notin {"list", "str"}
    \/ Get(task.due_date, PyNone).k \notin {"none", "date"}
    \/ ~IsNumber(Get(task.importance, PyInt(5)))
    \/ LET h == Get(task.estimated_hours, PyInt(0))
       IN  ~IsNumber(h) /\ ~PyEq(h, PyInt(0))

\* URGENCY EXPLANATIONS; today is the date read at that point
UrgencyReason(due, today) ==
    LET days_left == due.v - today
    IN  IF due.k = "none" THEN <<"", "No deadline set", 0>>
        ELSE IF days_left < 0 THEN
            <<"", IF Abs(days_left) > 1 THEN "OVERDUE by days"
                  ELSE "OVERDUE by day", Abs(days_left)>>
        ELSE IF days_left = 0 THEN <<"", "Due TODAY", 0>>
        ELSE IF days_left = 1 THEN <<"", "Due TOMORROW", 1>>
        ELSE IF days_left <= 3 THEN <<"", "Due in days: high urgency", days_left>>
        ELSE IF days_left <= 7 THEN <<"", "Due in days: deadline approaching", days_left>>
        ELSE IF days_left <= 14 THEN <<"", "Due in days: plan ahead", days_left>>
        ELSE IF days_left <= 30 THEN <<"", "Due in days: moderate urgency", days_left>>
        ELSE <<"", "Due in days: low urgency", days_left>>

\* IMPORTANCE EXPLANATIONS; importance in tenths
ImportanceReason(importance, prefix) ==
    IF importance >= 90 THEN <<prefix, "CRITICAL importance (9-10/10)", 0>>
    ELSE IF importance >= 70 THEN <<prefix, "High importance (7-8/10)", 0>>
    ELSE IF importance >= 50 THEN <<"", "Medium importance (5-6/10)", 0>>
    ELSE IF importance >= 30 THEN <<"", "Low importance (3-4/10)", 0>>
    ELSE <<"", "Very low importance (1-2/10)", 0>>

\* EFFORT EXPLANATIONS; hours in tenths
EffortReason(hours, prefix) ==
    IF hours = 0 THEN <<"", "Effort not estimated", 0>>
    ELSE IF hours <= 10 THEN <<prefix, "Quick win", 0>>
    ELSE IF hours <= 30 THEN <<prefix, "Short task", 0>>
    ELSE IF hours <= 60 THEN <<"", "Medium task", 0>>
    ELSE IF hours <= 120 THEN <<"", "Large task", 0>>
    ELSE <<"", "Major project", hours>>

\* DEPENDENCY EXPLANATIONS
DependencyReasons(dep_count) ==
    IF dep_count > 0
    THEN <<(<<"", IF dep_count > 1 THEN "Blocking other tasks"
                  ELSE "Blocking other task", dep_count>>)>>
    ELSE <<>>

\* STRATEGY-SPECIFIC NOTES; today is the date read at that point
StrategyNotes(strategy, due, importance, hours, today) ==
    IF strategy = "fastest_wins" /\ hours <= 30
    THEN <<(<<"", "Prioritized for quick completion", 0>>)>>
    ELSE IF strategy = "high_impact" /\ importance >= 80
    THEN <<(<<"", "Prioritized for maximum impact", 0>>)>>
    ELSE IF strategy = "deadline_driven" /\ due.k = "date"
            /\ due.v - today <= 3
    THEN <<(<<"", "Prioritized due to approaching deadline", 0>>)>>
    ELSE <<>>

\* explain_choice(task, strategy); today1 and today2 are what the first
\* and the second call of date.today() return
explain_choice(task, strategy, today1, today2) ==
    LET due == Get(task.due_date, PyNone)
        importance == Tenths(Get(task.importance, PyInt(5)))
        hours == Tenths(Get(task.estimated_hours, PyInt(0)))
        dep_count == Len(Get(task.dependencies, PyList(<<>>)).v)
        prefix == StrategyPrefix(strategy)
    IN  IF ExplainError(task) THEN [err |-> "TypeError", reasons |-> <<>>]
        ELSE [err |-> "none",
              reasons |->
                  <<UrgencyReason(due, today1),
                    ImportanceReason(importance, prefix),
                    EffortReason(hours, prefix)>>
                  \o DependencyReasons(dep_count)
                  \o StrategyNotes(strategy, due, importance, hours, today2)]

----------------------------------------------------------------------------
(* detect_circular_dependencies *)

\* task_map = {task["title"]: task for task in tasks}: the keys
TaskMapKeys(ts) == {ts[i].title : i \in DOMAIN ts}

\* task_map.get(title): the last task of the list with that title wins
TaskMapGet(ts, title) ==
    ts[CHOOSE i \in DOMAIN ts :
          /\ ts[i].title = title
          /\ \A j \in DOMAIN ts : ts[j].title = title => j <= i]

\* path.index(task_title): the first position holding it
PathIndex(path, title) ==
    CHOOSE i \in DOMAIN path :
        /\ path[i] = title
        /\ \A j \in DOMAIN path : path[j] = title => i <= j

\* the cycle without the slice from cycle_start
CycleOfWholePath(path, title) == Append(path, title)

\* cycle = path[cycle_start:] + [task_title]
CycleOf(path, title) ==
    Append(SubSeq(path, PathIndex(path, title), Len(path)), title)

\* the warning line of a cycle: the fixed text and the joined chain
WarningOf(cycle) == <<"Circular dependency detected", cycle>>

\* for dep in task.get("dependencies", []): the entries iterated, the
\* characters of a text one by one
DepsOf(task) ==
    LET deps == Get(task.dependencies, PyList(<<>>))
    IN  IF deps.k = "str" THEN [i \in DOMAIN deps.v |-> PyStr(<<deps.v[i]>>)]
        ELSE deps.v

\* the state detect_circular_dependencies starts its traversal from
DetectStart == [visited |-> {}, rec_stack |-> {}, cycles |-> <<>>,
                warnings |-> <<>>, err |-> "none"]

\* iterating task.get("dependencies", []) raises for a value that is no
\* sequence
Iterable(x) == x.k \in {"list", "str"}

RECURSIVE Dfs(_, _, _, _)
RECURSIVE DfsDeps(_, _, _, _, _, _)
\* dfs(task_title, path) as a function of the traversal state st
Dfs(ts, st, title, path) ==
    IF st.err # "none" THEN st
    ELSE IF title \in st.rec_stack THEN
        [st EXCEPT !.cycles = Append(@, CycleOf(path, title)),
                   !.warnings = Append(@, WarningOf(CycleOf(path, title)))]
    ELSE IF title \in st.visited THEN st
    ELSE LET st1 == [st EXCEPT !.visited = @ \cup {title},
                               !.rec_stack = @ \cup {title}]
             task == TaskMapGet(ts, title)
             st2 == IF Iterable(Get(task.dependencies, PyList(<<>>)))
                    THEN DfsDeps(ts, st1, title, path, DepsOf(task), 1)
                    ELSE [st1 EXCEPT !.err = "TypeError"]
         IN  IF st2.err # "none" THEN st2
             ELSE [st2 EXCEPT !.rec_stack = @ \ {title}]

\* the loop over the dependencies of title, from entry k on
DfsDeps(ts, st, title, path, deps, k) ==
    IF st.err # "none" \/ k > Len(deps) THEN st
    ELSE IF ~Hashable(deps[k]) THEN [st EXCEPT !.err = "TypeError"]
    ELSE IF deps[k] \in TaskMapKeys(ts)
         THEN DfsDeps(ts, Dfs(ts, st, deps[k], Append(path, title)),
                      title, path, deps, k + 1)
         ELSE DfsDeps(ts, st, title, path, deps, k + 1)

RECURSIVE DetectRoots(_, _, _)
\* for task in tasks: if task_title not in visited: dfs(task_title, [])
DetectRoots(ts, st, i) ==
    IF st.err # "none" \/ i > Len(ts) THEN st
    ELSE DetectRoots(ts,
                     IF ts[i].title \notin st.visited
                     THEN Dfs(ts, st, ts[i].title, <<>>) ELSE st,
                     i + 1)

\* building task_map raises for a task without a title (KeyError) or with
\* an unhashable one (TypeError)
TaskMapError(ts) ==
    IF \E i \in DOMAIN ts : ts[i].title.k = "missing" THEN "KeyError"
    ELSE IF \E i \in DOMAIN ts : ~Hashable(ts[i].title) THEN "TypeError"
    ELSE "none"

\* the report detect_circular_dependencies returns (err: what it raised)
detect_circular_dependencies(ts) ==
    LET st == IF TaskMapError(ts) # "none"
              THEN [DetectStart EXCEPT !.err = TaskMapError(ts)]
              ELSE DetectRoots(ts, DetectStart, 1)
    IN  [has_circular |-> Len(st.cycles) > 0, cycles |-> st.cycles,
         warnings |-> st.warnings, err |-> st.err]

----------------------------------------------------------------------------
(* detect_circular_dependencies, one step of the traversal at a time *)

Top == frames[Len(frames)]
TopDep == Top.deps[Top.k]
Advanced == [frames EXCEPT ![Len(frames)].k = @ + 1]

\* no scoring call and no request under way
CoreIdle ==
    /\ in_task = PyNone /\ in_strategy = "" /\ in_weights = PyNone
    /\ clock = 0 /\ reads = <<>>
    /\ sanitized = PyNone /\ resanitized = PyNone
    /\ score = 0 /\ reasons = <<>>
FlowIdle == request = <<>> /\ response = PyNone

\* no report yet
NoReport == [has_circular |-> FALSE, cycles |-> <<>>, warnings |-> <<>>]

\* dfs with the visited test ahead of the recursion-stack test
DfsEnterVisitedFirst(title, path, fr) ==
    IF title \in visited THEN
        /\ frames' = fr
        /\ UNCHANGED <<visited, rec_stack, cycles, warnings, expanded>>
    ELSE
        /\ visited' = visited \cup {title}
        /\ rec_stack' = rec_stack \cup {title}
        /\ frames' = Append(fr, [title |-> title, path |-> path,
                                 deps |-> DepsOf(TaskMapGet(tasks, title)),
                                 k |-> 1])
        /\ expanded' = Append(expanded, title)
        /\ UNCHANGED <<cycles, warnings>>

\* dfs that never adds the title to visited
DfsEnterNoVisited(title, path, fr) ==
    IF title \in rec_stack THEN
        /\ cycles' = Append(cycles, CycleOf(path, title))
        /\ warnings' = Append(warnings, WarningOf(CycleOf(path, title)))
        /\ frames' = fr
        /\ UNCHANGED <<visited, rec_stack, expanded>>
    ELSE
        /\ rec_stack' = rec_stack \cup {title}
        /\ frames' = Append(fr, [title |-> title, path |-> path,
                                 deps |-> DepsOf(TaskMapGet(tasks, title)),
                                 k |-> 1])
        /\ expanded' = Append(expanded, title)
        /\ UNCHANGED <<visited, cycles, warnings>>

\* dfs(title, path) from its entry to its first return or to its loop;
\* fr: the calls that stay active below it
DfsEnter(title, path, fr) ==
    IF title \in rec_stack THEN
        /\ cycles' = Append(cycles, CycleOf(path, title))
        /\ warnings' = Append(warnings, WarningOf(CycleOf(path, title)))
        /\ frames' = fr
        /\ UNCHANGED <<visited, rec_stack, expanded>>
    ELSE IF title \in visited THEN
        /\ frames' = fr
        /\ UNCHANGED <<visited, rec_stack, cycles, warnings, expanded>>
    ELSE
        /\ visited' = visited \cup {title}
        /\ rec_stack' = rec_stack \cup {title}
        /\ frames' = Append(fr, [title |-> title, path |-> path,
                                 deps |-> DepsOf(TaskMapGet(tasks, title)),
                                 k |-> 1])
        /\ expanded' = Append(expanded, title)
        /\ UNCHANGED <<cycles, warnings>>

\* the root loop takes a task not yet visited and calls dfs(title, [])
RootCall ==
    /\ pc = "roots" /\ frames = <<>> /\ root <= Len(tasks)
    /\ tasks[root].title \notin visited
    /\ DfsEnter(tasks[root].title, <<>>, <<>>)
    /\ root' = root + 1
    /\ started' = Append(started, root)
    /\ UNCHANGED <<cvars, fvars, pc, tasks, report>>

\* the root loop passes a task already visited
RootSkip ==
    /\ pc = "roots" /\ frames = <<>> /\ root <= Len(tasks)
    /\ tasks[root].title \in visited
    /\ root' = root + 1
    /\ UNCHANGED <<cvars, fvars, pc, tasks, report, visited, rec_stack,
                   cycles, warnings, frames, expanded, started>>

\* the dependency loop meets a known title and calls dfs on it
DepFollow ==
    /\ pc = "roots" /\ frames # <<>> /\ Top.k <= Len(Top.deps)
    /\ Hashable(TopDep) /\ TopDep \in TaskMapKeys(tasks)
    /\ DfsEnter(TopDep, Append(Top.path, Top.title), Advanced)
    /\ UNCHANGED <<cvars, fvars, pc, tasks, report, root, started>>

\* the dependency loop passes a title no task has
DepIgnore ==
    /\ pc = "roots" /\ frames # <<>> /\ Top.k <= Len(Top.deps)
    /\ Hashable(TopDep) /\ TopDep \notin TaskMapKeys(tasks)
    /\ frames' = Advanced
    /\ UNCHANGED <<cvars, fvars, pc, tasks, report, root, visited, rec_stack,
                   cycles, warnings, expanded, started>>

\* dep in task_map raises TypeError for an unhashable entry
DepRaise ==
    /\ pc = "roots" /\ frames # <<>> /\ Top.k <= Len(Top.deps)
    /\ ~Hashable(TopDep)
    /\ pc' = "raised"
    /\ UNCHANGED <<cvars, fvars, dvars, report>>

\* the dependency loop is over: rec_stack.remove(task_title); return
DfsReturn ==
    /\ pc = "roots" /\ frames # <<>> /\ Top.k > Len(Top.deps)
    /\ rec_stack' = rec_stack \ {Top.title}
    /\ frames' = SubSeq(frames, 1, Len(frames) - 1)
    /\ UNCHANGED <<cvars, fvars, pc, tasks, report, root, visited, cycles,
                   warnings, expanded, started>>

\* the report with has_circular asking for more than one cycle
DetectReturnTwoCycles ==
    /\ pc = "roots" /\ frames = <<>> /\ root > Len(tasks)
    /\ pc' = "done"
    /\ report' = [has_circular |-> Len(cycles) > 1, cycles |-> cycles,
                  warnings |-> warnings]
    /\ UNCHANGED <<cvars, fvars, dvars>>

\* the root loop is over: the report is returned
DetectReturn ==
    /\ pc = "roots" /\ frames = <<>> /\ root > Len(tasks)
    /\ pc' = "done"
    /\ report' = [has_circular |-> Len(cycles) > 0, cycles |-> cycles,
                  warnings |-> warnings]
    /\ UNCHANGED <<cvars, fvars, dvars>>

----------------------------------------------------------------------------
(* The task lists the detector is run on *)

\* dependency entries over all the tasks of one list, at most
MaxEdges == 4

\* the titles of the model, a task list holding at most one task of each
TitleNames == <<"A", "B", "C">>
TitleOf(i) == PyStr(<<TitleNames[i]>>)

\* a dependency entry: a title of the model, or an unhashable value
DepEntries == {TitleOf(i) : i \in DOMAIN TitleNames} \cup {PyList(<<>>)}

\* the titles of n tasks up to renaming: the first is A, and each later one
\* is an earlier title or the next unused one
TitlePatterns(n) ==
    {f \in [1..n -> DOMAIN TitleNames] :
        \A i \in 1..n : \/ \E j \in 1..(i - 1) : f[j] = f[i]
                        \/ f[i] = Cardinality({f[j] : j \in 1..(i - 1)}) + 1}

\* the ways to hand k dependency entries, in order, to n tasks
Owners(n, k) ==
    {o \in [1..k -> 1..n] : \A j \in 1..(k - 1) : o[j] <= o[j + 1]}

\* the entries of ent that owner o hands to task i, in order
OwnedBy(ent, o, i) ==
    LET idx == {j \in DOMAIN ent : o[j] = i}
        first == IF idx = {} THEN 1
                 ELSE CHOOSE j \in idx : \A m \in idx : j <= m
    IN  SubSeq(ent, first, first + Cardinality(idx) - 1)

\* the task list of n tasks titled by pattern f, holding the entries ent
TaskList(n, f, ent, o) ==
    [i \in 1..n |-> [title |-> TitleOf(f[i]),
                     dependencies |-> PyList(OwnedBy(ent, o, i))]]

InitDetect ==
    /\ pc = "roots"
    /\ \E n \in DOMAIN TitleNames, k \in 0..MaxEdges :
         \E f \in TitlePatterns(n), o \in Owners(n, k),
            ent \in [1..k -> DepEntries] :
              tasks = TaskList(n, f, ent, o)
    /\ visited = {} /\ rec_stack = {}
    /\ cycles = <<>> /\ warnings = <<>>
    /\ frames = <<>> /\ root = 1
    /\ expanded = <<>> /\ started = <<>>
    /\ report = NoReport
    /\ CoreIdle /\ FlowIdle

NextDetect ==
    \/ RootCall \/ RootSkip \/ DepFollow \/ DepIgnore \/ DepRaise
    \/ DfsReturn \/ DetectReturn

SpecDetect == InitDetect /\ [][NextDetect]_vars

\* the detector is straight-line sequential code: a step that can be taken
\* is taken
SpecDetectFair == InitDetect /\ [][NextDetect]_vars /\ WF_vars(NextDetect)

----------------------------------------------------------------------------
(* The dependency graph of a task list, and what the detector owes it *)

DistinctTitles(ts) ==
    \A i, j \in DOMAIN ts : ts[i].title = ts[j].title => i = j

\* x -> y: y is a dependency of the task titled x and is itself a title
Edge(ts, x, y) ==
    /\ x \in TaskMapKeys(ts) /\ y \in TaskMapKeys(ts)
    /\ y \in Range(DepsOf(TaskMapGet(ts, x)))

\* the simple directed cycles, each as the sequence of its nodes from any
\* of them (the closing edge leads from the last node to the first)
SimpleCycles(ts) ==
    {c \in UNION {[1..m -> TaskMapKeys(ts)] :
                     m \in 1..Cardinality(TaskMapKeys(ts))} :
        /\ \A i, j \in DOMAIN c : c[i] = c[j] => i = j
        /\ \A i \in DOMAIN c : Edge(ts, c[i], c[(i % Len(c)) + 1])}

\* entry e of the cycle list is the simple cycle c from one of its nodes
IsRotation(e, c) ==
    /\ Len(e) = Len(c) + 1
    /\ \E r \in 0..(Len(c) - 1) :
         \A j \in DOMAIN e : e[j] = c[((j - 1 + r) % Len(c)) + 1]

\* entry e closes over the edge x -> y: it ends ..., x, y and starts at y
ClosesOver(e, x, y) ==
    /\ Len(e) >= 2
    /\ e[1] = y /\ e[Len(e)] = y /\ e[Len(e) - 1] = x

\* every dependency entry of every task is a text
TextDependencies(ts) ==
    \A i \in DOMAIN ts : \A d \in Range(DepsOf(ts[i])) : d.k = "str"

Ring ==
    [i \in 1..3 |-> [title |-> TitleOf(i),
                     dependencies |-> PyList(<<TitleOf((i % 3) + 1)>>)]]

\* C3: on a list with distinct titles and text dependency entries the
\* detector returns, has_circular is true exactly when the graph has a
\* directed cycle, an acyclic graph gives no cycles and no warnings, and the
\* ring A -> B -> C -> A gives the one cycle [A, B, C, A].
C3_HasCircularIffCycle ==
    (DistinctTitles(tasks) /\ TextDependencies(tasks)) =>
        /\ pc # "raised"
        /\ pc = "done" =>
              /\ report.has_circular <=> (SimpleCycles(tasks) # {})
              /\ SimpleCycles(tasks) = {} =>
                    (report.cycles = <<>> /\ report.warnings = <<>>)
              /\ tasks = Ring =>
                    report.cycles =
                        <<(<<TitleOf(1), TitleOf(2), TitleOf(3), TitleOf(1)>>)>>

\* the ring has been analysed
C3_Witness == pc = "done" /\ tasks = Ring /\ report.has_circular

\* the titles of the active calls of dfs, outermost first
ActiveTitles == [j \in DOMAIN frames |-> frames[j].title]

\* a closed loop of the dependency graph passing no title twice
GenuineLoop(ts, e) ==
    /\ Len(e) >= 2
    /\ e[1] = e[Len(e)]
    /\ \A j \in 1..(Len(e) - 1) : Edge(ts, e[j], e[j + 1])
    /\ \A i, j \in 1..(Len(e) - 1) : e[i] = e[j] => i = j

\* C9: every recorded cycle is a genuine closed loop of the graph, and at
\* every step the recursion stack is the set of titles on the current path.
C9_CyclesGenuine ==
    /\ \A i \in DOMAIN cycles : GenuineLoop(tasks, cycles[i])
    /\ rec_stack = Range(ActiveTitles)
    /\ frames # <<>> => Append(Top.path, Top.title) = ActiveTitles

\* a cycle through three titles recorded while the traversal is under way
C9_Witness ==
    /\ pc = "roots" /\ Len(frames) = 3
    /\ \E i \in DOMAIN cycles : Len(cycles[i]) = 4

\* the stepwise traversal returns what the recursive definition computes
StepwiseAgrees ==
    /\ pc = "done" =>
          LET r == detect_circular_dependencies(tasks)
          IN  /\ r.err = "none"
              /\ report = [has_circular |-> r.has_circular,
                           cycles |-> r.cycles, warnings |-> r.warnings]
    /\ pc = "raised" => detect_circular_dependencies(tasks).err = "TypeError"

\* no title had its dependency loop entered twice
ExpandedOnce ==
    \A i, j \in DOMAIN expanded : expanded[i] = expanded[j] => i = j

\* the root calls went through the input front to back, none for a title
\* already visited, and no task was passed over with its title unvisited
RootsInOrder ==
    /\ \A i \in DOMAIN started : started[i] < root
    /\ \A i, j \in DOMAIN started : i < j => started[i] < started[j]
    /\ \A i, j \in DOMAIN started :
          tasks[started[i]].title = tasks[started[j]].title => i = j
    /\ \A i \in DOMAIN started : tasks[started[i]].title \in Range(expanded)
    /\ \A i \in 1..(root - 1) : tasks[i].title \in visited

\* the run is over
Terminated ==
    \/ pc = "done"
    \/ pc = "raised" /\ ~TextDependencies(tasks)

\* C11: every run of the detector ends, with a report whenever the
\* dependency entries are text; during the run no title has its dependencies
\* expanded twice, no title is started as a root twice, the roots are taken
\* in input order, and at the return the recursion stack is empty.
C11_TerminatesExpandingOnce ==
    /\ <>Terminated
    /\ [](/\ ExpandedOnce
          /\ RootsInOrder
          /\ pc = "done" => (rec_stack = {} /\ frames = <<>>))

\* a finished run over a list with a self-dependency and a recorded cycle,
\* where two roots were started and a later task was passed as visited
C11_Witness ==
    /\ pc = "done" /\ rec_stack = {}
    /\ \E i \in DOMAIN tasks : Edge(tasks, tasks[i].title, tasks[i].title)
    /\ cycles # <<>>
    /\ Len(started) >= 2 /\ Len(started) < Len(tasks)
    /\ Len(expanded) = Len(tasks)

----------------------------------------------------------------------------
(* One task through sanitize_task_data, calculate_priority, explain_choice *)

\* characters of a text value, at most
MaxStrLen == 3
\* entries of a dependency list of mixed values, at most
MaxDepsLen == 2

TextChars == {" ", "\t", "A"}
Texts(n) == UNION {[1..m -> TextChars] : m \in 0..n}

WellFormedTask ==
    [title |-> PyStr(<<"A">>), due_date |-> Missing,
     estimated_hours |-> PyFloat(20), importance |-> PyInt(5),
     dependencies |-> PyList(<<>>)]

NoFieldsTask ==
    [title |-> Missing, due_date |-> Missing, estimated_hours |-> Missing,
     importance |-> Missing, dependencies |-> Missing]

TitleValues ==
    {PyStr(t) : t \in Texts(MaxStrLen)}
        \cup {Missing, PyNone, PyInt(0), PyInt(7), PyFloat(0), PyBool(FALSE),
              PyList(<<>>), PyList(<<PyStr(<<"A">>)>>)}

DueDays == {-8, -7, -6, -1, 0, 1, 2, 3, 4, 7, 8, 14, 15, 30, 31}
DueValues ==
    {PyDate(d) : d \in DueDays}
        \cup {Missing, PyNone, PyStr(<<"A">>), PyInt(3), PyList(<<>>)}

HoursValues ==
    {PyFloat(h) : h \in {-10, -1, 0, 5, 10, 11, 30, 31, 60, 61, 120, 121}}
        \cup {Missing, PyNone, PyInt(2), PyInt(-2), PyBool(TRUE),
              PyStr(<<"3">>), PyStr(<<" ", "2", ".", "5">>),
              PyStr(<<"-", "4">>), PyStr(<<"A">>), PyStr(<<>>),
              PyStr(<<"1", " ", "2">>), PyList(<<>>)}

ImportanceValues ==
    {PyInt(i) : i \in {-3, 0, 1, 2, 3, 4, 5, 6, 7, 8, 9, 10, 11, 15}}
        \cup {PyFloat(f) : f \in {-25, 5, 75, 109, 120}}
        \cup {Missing, PyNone, PyBool(TRUE), PyBool(FALSE),
              PyStr(<<"7">>), PyStr(<<" ", "1", "2", " ">>),
              PyStr(<<"7", ".", "5">>), PyStr(<<"-", "1">>),
              PyStr(<<"A">>), PyList(<<>>)}

DepEntryValues ==
    {PyStr(<<>>), PyStr(<<" ">>), PyStr(<<"A">>), PyStr(<<" ", "A", "\t">>),
     PyInt(0), PyInt(5), PyFloat(25), PyNone, PyBool(TRUE),
     PyList(<<>>), PyList(<<PyStr(<<"A">>), PyInt(1)>>)}

\* n dependencies titled B
Blockers(n) == PyList([i \in 1..n |-> PyStr(<<"B">>)])

DepsValues ==
    {PyList(d) : d \in UNION {[1..m -> DepEntryValues] : m \in 0..MaxDepsLen}}
        \cup {Blockers(n) : n \in 3..5}
        \cup {Missing, PyNone, PyInt(3), PyStr(<<"A", "B">>)}

\* the tasks that differ from a well-formed one in one field, or have none
FieldTasks ==
    {[WellFormedTask EXCEPT !.title = x] : x \in TitleValues}
        \cup {[WellFormedTask EXCEPT !.due_date = x] : x \in DueValues}
        \cup {[WellFormedTask EXCEPT !.estimated_hours = x] : x \in HoursValues}
        \cup {[WellFormedTask EXCEPT !.importance = x] : x \in ImportanceValues}
        \cup {[WellFormedTask EXCEPT !.dependencies = x] : x \in DepsValues}
        \cup {NoFieldsTask}

\* tasks crossing the bands of the four factors
BandTasks ==
    {[title |-> PyStr(<<"A">>), due_date |-> d, estimated_hours |-> h,
      importance |-> i, dependencies |-> ds] :
        d \in {Missing, PyDate(-3), PyDate(0), PyDate(2), PyDate(40)},
        h \in {PyFloat(0), PyFloat(10), PyFloat(130)},
        i \in {PyInt(1), PyInt(10), PyInt(15)},
        ds \in {Blockers(0), Blockers(1), Blockers(4)}}

StrategyNames ==
    {"smart_balance", "fastest_wins", "high_impact", "deadline_driven", "foo"}

PyDict(f) == [k |-> "dict", v |-> f]

\* custom_weights: None, or a mapping holding any of the four keys
SomeWeights == [urgency |-> 100, importance |-> 0, effort |-> 50,
                dependencies |-> 20]
WeightChoices ==
    {PyNone} \cup {PyDict([key \in K |-> SomeWeights[key]]) :
                      K \in SUBSET WeightKeys}

InitCore ==
    /\ pc = "call"
    /\ \/ /\ in_task \in FieldTasks
          /\ in_strategy \in {"smart_balance", "deadline_driven"}
          /\ in_weights = PyNone
       \/ /\ in_task \in BandTasks
          /\ in_strategy \in StrategyNames
          /\ in_weights \in WeightChoices
    /\ clock = 0 /\ reads = <<>>
    /\ sanitized = PyNone /\ resanitized = PyNone
    /\ score = 0 /\ reasons = <<>>
    /\ tasks = <<>> /\ visited = {} /\ rec_stack = {}
    /\ cycles = <<>> /\ warnings = <<>> /\ frames = <<>> /\ root = 1
    /\ expanded = <<>> /\ started = <<>>
    /\ report = NoReport
    /\ FlowIdle

coreFrame == <<tasks, visited, rec_stack, cycles, warnings, frames, root,
               expanded, started, report, fvars, in_task, in_strategy,
               in_weights, clock, reads>>

\* sanitize_task_data(task)
Sanitize ==
    /\ pc = "call"
    /\ sanitized' = sanitize_task_data(in_task)
    /\ pc' = "sanitized"
    /\ UNCHANGED <<coreFrame, resanitized, score, reasons>>

\* sanitize_task_data on a task it returned
SanitizeAgain ==
    /\ pc = "sanitized"
    /\ resanitized' = sanitize_task_data(sanitized)
    /\ pc' = "resanitized"
    /\ UNCHANGED <<coreFrame, sanitized, score, reasons>>

\* calculate_priority(task, strategy, custom_weights)
CalculatePriority ==
    /\ pc = "resanitized"
    /\ score' = calculate_priority(in_task, in_strategy, in_weights, clock)
    /\ pc' = "scored"
    /\ UNCHANGED <<coreFrame, sanitized, resanitized, reasons>>

\* explain_choice(task, strategy), on the task as the handlers pass it
ExplainChoice ==
    /\ pc = "scored"
    /\ reasons' = explain_choice(in_task, in_strategy, clock, clock)
    /\ pc' = "explained"
    /\ UNCHANGED <<coreFrame, sanitized, resanitized, score>>

NextCore == Sanitize \/ SanitizeAgain \/ CalculatePriority \/ ExplainChoice

SpecCore == InitCore /\ [][NextCore]_vars

----------------------------------------------------------------------------
(* Claims on the single-task functions *)

TaskFields ==
    {"title", "due_date", "estimated_hours", "importance", "dependencies"}

\* two values of one field are equal: both absent, or == in Python
FieldEq(x, y) ==
    IF x.k = "missing" \/ y.k = "missing" THEN x.k = y.k ELSE PyEq(x, y)

\* C4: sanitize_task_data is idempotent, field by field.
C4_SanitizeIdempotent ==
    pc \in {"resanitized", "scored", "explained"} =>
        \A f \in TaskFields : FieldEq(resanitized[f], sanitized[f])

\* a second pass over a task whose dependency entries the first pass
\* rewrote and kept
C4_Witness ==
    /\ pc = "resanitized"
    /\ in_task.dependencies.k = "list"
    /\ sanitized.dependencies # in_task.dependencies
    /\ Len(sanitized.dependencies.v) = Len(in_task.dependencies.v)
    /\ sanitized.dependencies.v # <<>>

\* the input title is missing, empty or whitespace-only
BlankTitle(title) ==
    \/ title.k \in {"missing", "none"}
    \/ title.k = "str" /\ Strip(title.v) = <<>>

\* C5 as stated: the sanitized title is a trimmed, non-empty text, and is
\* "Untitled Task" when the input title is missing, empty or
\* whitespace-only.
C5_TitleTrimmed ==
    pc \in {"sanitized", "resanitized", "scored", "explained"} =>
        /\ sanitized.title.k = "str"
        /\ sanitized.title.v # <<>>
        /\ Strip(sanitized.title.v) = sanitized.title.v
        /\ BlankTitle(in_task.title) => sanitized.title = UntitledTask

\* the bands of spec section 4.2, in tenths
RefUrgency(due, today) ==
    IF due.k \in {"missing", "none"} THEN 30
    ELSE LET d == due.v - today
         IN  CASE d < 0 -> 100
               [] d = 0 -> 100
               [] d = 1 -> 90
               [] d \in 2..3 -> 80
               [] d \in 4..7 -> 60
               [] d \in 8..14 -> 40
               [] d \in 15..30 -> 20
               [] OTHER -> 10

RefEffort(hours) ==
    CASE hours = 0 -> 50
      [] hours > 0 /\ hours <= 10 -> 100
      [] hours > 10 /\ hours <= 30 -> 80
      [] hours > 30 /\ hours <= 60 -> 60
      [] hours > 60 /\ hours <= 120 -> 40
      [] OTHER -> 20

RefDependency(n) == IF n >= 4 THEN 100 ELSE <<0, 30, 60, 80>>[n + 1]

\* the weights of a strategy, in hundredths (section 4.3)
RefWeights(strategy, custom_weights) ==
    CASE strategy = "fastest_wins" ->
            [urgency |-> 10, importance |-> 20, effort |-> 70,
             dependencies |-> 0]
      [] strategy = "high_impact" ->
            [urgency |-> 10, importance |-> 80, effort |-> 0,
             dependencies |-> 10]
      [] strategy = "deadline_driven" ->
            [urgency |-> 80, importance |-> 15, effort |-> 5,
             dependencies |-> 0]
      [] OTHER ->
            [key \in WeightKeys |->
                IF custom_weights.k = "dict" /\ key \in DOMAIN custom_weights.v
                THEN custom_weights.v[key]
                ELSE CASE key = "urgency" -> 35
                       [] key = "importance" -> 35
                       [] OTHER -> 15]

\* the reference formula on a sanitized task t
RefScore(t, strategy, custom_weights, today) ==
    LET w == RefWeights(strategy, custom_weights)
    IN  Round2(w.urgency * RefUrgency(t.due_date, today)
               + w.importance * 10 * t.importance.v
               + w.effort * RefEffort(Tenths(t.estimated_hours))
               + w.dependencies * RefDependency(Len(t.dependencies.v)))

\* C7: calculate_priority is the reference formula of its strategy on the
\* sanitized task, custom weights replacing the defaults key by key under
\* smart_balance, and a name outside the four scoring as smart_balance.
C7_PriorityIsReference ==
    pc \in {"scored", "explained"} =>
        /\ score = RefScore(sanitize_task_data(in_task), in_strategy,
                            in_weights, clock)
        /\ in_strategy \notin
              {"fastest_wins", "high_impact", "deadline_driven"} =>
              score = calculate_priority(in_task, "smart_balance",
                                         in_weights, clock)

\* an unknown strategy scored under a mapping holding some of the keys
C7_Witness ==
    /\ pc = "scored" /\ in_strategy = "foo"
    /\ in_weights.k = "dict"
    /\ DOMAIN in_weights.v = {"urgency", "effort"}
    /\ score # calculate_priority(in_task, "smart_balance", PyNone, clock)

----------------------------------------------------------------------------
(* The request handlers of views.py *)

Reverse(s) == [i \in DOMAIN s |-> s[Len(s) + 1 - i]]

\* x put into the ascending list s behind every entry whose score is not
\* larger
InsertByScore(s, x) ==
    LET n == Cardinality({i \in DOMAIN s : s[i].score <= x.score})
    IN  SubSeq(s, 1, n) \o <<x>> \o SubSeq(s, n + 1, Len(s))

RECURSIVE StableSortAsc(_)
\* the stable ascending sort of list.sort
StableSortAsc(s) ==
    IF s = <<>> THEN <<>>
    ELSE InsertByScore(StableSortAsc(SubSeq(s, 1, Len(s) - 1)), s[Len(s)])

\* a descending sort that reverses the ascending one
SortedByScoreReversed(s) == Reverse(StableSortAsc(s))

\* sorted(tasks, key=score, reverse=True): list.sort reverses the list,
\* sorts it ascending and stable, and reverses the result
SortedByScore(s) == Reverse(StableSortAsc(Reverse(s)))

\* request.data.get("strategy", "smart_balance")
RequestStrategy(req) ==
    IF req.strategy = "" THEN "smart_balance" ELSE req.strategy

\* request.data.get("custom_weights")
RequestWeights(req) == Get(req.custom_weights, PyNone)

\* get_strategy_info: the entry of STRATEGIES, smart_balance's by default
get_strategy_info(strategy) ==
    IF strategy \in {"smart_balance", "fastest_wins", "high_impact",
                     "deadline_driven"}
    THEN strategy ELSE "smart_balance"

\* the loop body of the handlers: the task as validated, with
\* task["score"] and task["reasons"] added
ScoredTask(t, strategy, custom_weights, today) ==
    [title |-> t.title, due_date |-> t.due_date,
     estimated_hours |-> t.estimated_hours, importance |-> t.importance,
     dependencies |-> t.dependencies,
     score |-> calculate_priority(t, strategy, custom_weights, today),
     reasons |-> explain_choice(t, strategy, today, today).reasons]

ScoreAll(ts, strategy, custom_weights, today) ==
    [i \in DOMAIN ts |-> ScoredTask(ts[i], strategy, custom_weights, today)]

\* what the scoring loop raises, if anything
ScoreError(ts, strategy, today) ==
    IF \E i \in DOMAIN ts : ExplainError(ts[i]) THEN "TypeError" ELSE "none"

\* analyze_tasks: detect cycles, score and explain every task, sort
AnalyzeResponse(req, today) ==
    LET strategy == RequestStrategy(req)
        weights == RequestWeights(req)
        dependency_check == detect_circular_dependencies(req.tasks)
    IN  IF dependency_check.err # "none"
        THEN [status |-> 500, error |-> dependency_check.err]
        ELSE IF ScoreError(req.tasks, strategy, today) # "none"
        THEN [status |-> 500, error |-> ScoreError(req.tasks, strategy, today)]
        ELSE [status |-> 200,
              tasks |-> SortedByScore(
                            ScoreAll(req.tasks, strategy, weights, today)),
              strategy |-> get_strategy_info(strategy),
              warnings |-> IF dependency_check.has_circular
                           THEN dependency_check.warnings ELSE <<>>,
              circular_dependencies |->
                  IF dependency_check.has_circular
                  THEN dependency_check.cycles ELSE <<>>]

\* suggest_tasks: score with smart_balance, sort, keep the first three
SuggestResponse(req, today) ==
    LET sorted == SortedByScore(
                      ScoreAll(req.tasks, "smart_balance", PyNone, today))
    IN  IF ScoreError(req.tasks, "smart_balance", today) # "none"
        THEN [status |-> 500,
              error |-> ScoreError(req.tasks, "smart_balance", today)]
        ELSE [status |-> 200,
              tasks |-> SubSeq(sorted, 1, Min(3, Len(sorted)))]

flowFrame == <<tasks, visited, rec_stack, cycles, warnings, frames, root,
               expanded, started, report, in_task, in_strategy, in_weights,
               clock, reads, sanitized, resanitized, score, reasons, request>>

AnalyzeTasks ==
    /\ pc = "request"
    /\ response' = AnalyzeResponse(request, clock)
    /\ pc' = "analyzed"
    /\ UNCHANGED flowFrame

SuggestTasks ==
    /\ pc = "request"
    /\ response' = SuggestResponse(request, clock)
    /\ pc' = "suggested"
    /\ UNCHANGED flowFrame

\* get_strategies: the STRATEGIES table
GetStrategies ==
    /\ pc = "request"
    /\ response' = [status |-> 200,
                    strategies |-> {"smart_balance", "fastest_wins",
                                    "high_impact", "deadline_driven"}]
    /\ pc' = "listed"
    /\ UNCHANGED flowFrame

NextFlow == AnalyzeTasks \/ SuggestTasks \/ GetStrategies

----------------------------------------------------------------------------
(* The requests: task lists as TaskSerializer validates them (a trimmed,
   non-blank title, an optional date, a float, an int, a list of any
   values) *)

\* tasks of a request built from the field variants, at most
MaxRequestTasks == 2

TitleA == PyStr(<<"A">>)
TitleB == PyStr(<<"B">>)
Padded(t) == PyStr(<<" ">> \o t.v)

PlainTask(t) ==
    [title |-> t, due_date |-> Missing, estimated_hours |-> PyFloat(20),
     importance |-> PyInt(5), dependencies |-> PyList(<<>>)]

\* the validated tasks titled t, o being the other title
TaskVariants(t, o) ==
    {PlainTask(t)}
        \cup {[PlainTask(t) EXCEPT !.dependencies = PyList(d)] :
                d \in {<<o>>, <<t>>, <<Padded(o)>>, <<PyList(<<o>>)>>,
                       <<PyStr(<<>>), PyInt(5)>>}}
        \cup {[PlainTask(t) EXCEPT !.importance = PyInt(i)] : i \in {-3, 15}}
        \cup {[PlainTask(t) EXCEPT !.estimated_hours = PyFloat(-10)]}
        \cup {[PlainTask(t) EXCEPT !.due_date = PyDate(d)] : d \in {0, 2}}

ValidatedTasks == TaskVariants(TitleA, TitleB) \cup TaskVariants(TitleB, TitleA)

\* longer lists of plain tasks, some with equal scores
RankedTasks ==
    {PlainTask(TitleA), PlainTask(TitleB),
     [PlainTask(TitleA) EXCEPT !.importance = PyInt(9)]}

RequestLists ==
    UNION {[1..n -> ValidatedTasks] : n \in 0..MaxRequestTasks}
        \cup [1..4 -> RankedTasks]

\* the strategy and custom_weights of the request body ("" and Missing:
\* the body does not give them)
RequestOptions ==
    {<<"", Missing>>, <<"fastest_wins", Missing>>, <<"high_impact", Missing>>,
     <<"deadline_driven", Missing>>,
     <<"smart_balance", PyDict([urgency |-> 100, effort |-> 50])>>,
     <<"foo", PyDict([importance |-> 0])>>}

InitFlow ==
    /\ pc = "request"
    /\ \E ts \in RequestLists, o \in RequestOptions :
          request = [tasks |-> ts, strategy |-> o[1], custom_weights |-> o[2]]
    /\ response = PyNone
    /\ clock = 0 /\ reads = <<>>
    /\ in_task = PyNone /\ in_strategy = "" /\ in_weights = PyNone
    /\ sanitized = PyNone /\ resanitized = PyNone
    /\ score = 0 /\ reasons = <<>>
    /\ tasks = <<>> /\ visited = {} /\ rec_stack = {}
    /\ cycles = <<>> /\ warnings = <<>> /\ frames = <<>> /\ root = 1
    /\ expanded = <<>> /\ started = <<>>
    /\ report = NoReport

SpecFlow == InitFlow /\ [][NextFlow]_vars

----------------------------------------------------------------------------
(* Claims on the handlers *)

Responded == pc \in {"analyzed", "suggested"} /\ response.status = 200

\* the scored tasks of the request in input order, as the handler that ran
\* scores them
ScoredInput ==
    IF pc = "analyzed"
    THEN ScoreAll(request.tasks, RequestStrategy(request),
                  RequestWeights(request), clock)
    ELSE ScoreAll(request.tasks, "smart_balance", PyNone, clock)

\* C1: the returned task list is the scored input in non-increasing order
\* of score, tasks of equal score keeping their input order.
C1_SortedStable ==
    Responded =>
        /\ pc = "analyzed" => Len(response.tasks) = Len(request.tasks)
        /\ \E p \in [DOMAIN response.tasks -> DOMAIN request.tasks] :
              /\ \A i \in DOMAIN p : response.tasks[i] = ScoredInput[p[i]]
              /\ \A i, j \in DOMAIN p :
                    i < j => /\ p[i] # p[j]
                             /\ response.tasks[i].score >= response.tasks[j].score
                             /\ response.tasks[i].score = response.tasks[j].score
                                   => p[i] < p[j]

\* a reordered response holding two differently titled tasks of one score
C1_Witness ==
    /\ Responded /\ pc = "analyzed"
    /\ response.tasks # ScoredInput
    /\ \E i, j \in DOMAIN response.tasks :
          /\ i < j
          /\ response.tasks[i].score = response.tasks[j].score
          /\ response.tasks[i].title # response.tasks[j].title

\* C6 as stated: every returned task is the sanitized task of the request
\* plus its score: importance within 1..10, estimated_hours not negative,
\* the dependencies as sanitized.
C6_ReturnedSanitized ==
    Responded =>
        \A i \in DOMAIN response.tasks :
            LET t == response.tasks[i]
            IN  /\ t.importance.v \in 1..10
                /\ Tenths(t.estimated_hours) >= 0
                /\ \E j \in DOMAIN request.tasks :
                      LET c == sanitize_task_data(request.tasks[j])
                      IN  /\ t.score = ScoredInput[j].score
                          /\ \A f \in TaskFields : FieldEq(t[f], c[f])

\* C8 as stated: the handlers complete with a result for every validated
\* task list, whatever the field values.
C8_NeverRaises ==
    pc \in {"analyzed", "suggested"} => response.status = 200

SanitizeAll(ts) == [i \in DOMAIN ts |-> sanitize_task_data(ts[i])]

\* C10 as stated: the cycle report of analyze_tasks is that of
\* detect_circular_dependencies on the sanitized tasks.
C10_ReportOfSanitized ==
    (pc = "analyzed" /\ response.status = 200) =>
        LET r == detect_circular_dependencies(SanitizeAll(request.tasks))
        IN  /\ response.circular_dependencies = r.cycles
            /\ response.warnings = r.warnings

----------------------------------------------------------------------------
(* One scoring call and one explaining call under a clock that moves *)

\* the days the clock may advance while the two calls run, at most
MaxClock == 2

\* due dates on both sides of every threshold the two functions compare to
ClockDueDays == {-1, 0, 1, 2, 3, 4, 5, 7, 8, 9, 14, 15, 16, 30, 31, 32}

\* tasks as the handlers pass them: a date or None for due_date
ClockTasks ==
    {[title |-> PyStr(<<"A">>), due_date |-> d, estimated_hours |-> h,
      importance |-> i, dependencies |-> PyList(<<>>)] :
        d \in {PyNone} \cup {PyDate(n) : n \in ClockDueDays},
        h \in {PyFloat(20), PyFloat(80)},
        i \in {PyInt(5), PyInt(9)}}

InitClock ==
    /\ pc = "enter"
    /\ in_task \in ClockTasks
    /\ in_strategy \in StrategyNames
    /\ in_weights = PyNone
    /\ clock = 0 /\ reads = <<>>
    /\ sanitized = PyNone /\ resanitized = PyNone
    /\ score = 0 /\ reasons = <<>>
    /\ tasks = <<>> /\ visited = {} /\ rec_stack = {}
    /\ cycles = <<>> /\ warnings = <<>> /\ frames = <<>> /\ root = 1
    /\ expanded = <<>> /\ started = <<>>
    /\ report = NoReport
    /\ FlowIdle

clockFrame == <<tasks, visited, rec_stack, cycles, warnings, frames, root,
                expanded, started, report, fvars, in_task, in_strategy,
                in_weights, sanitized, resanitized>>

\* midnight passes
Tick ==
    /\ clock < MaxClock
    /\ clock' = clock + 1
    /\ UNCHANGED <<clockFrame, pc, reads, score, reasons>>

\* calculate_priority(task, strategy): every strategy calls
\* calculate_urgency_score, which reads the date unless due is None
PriorityCall ==
    /\ pc = "enter"
    /\ score' = calculate_priority(in_task, in_strategy, in_weights, clock)
    /\ reads' = IF Get(sanitize_task_data(in_task).due_date, PyNone).k = "none"
                THEN <<>> ELSE <<clock>>
    /\ pc' = "priority_returned"
    /\ UNCHANGED <<clockFrame, clock, reasons>>

\* explain_choice(task, strategy) down to days_left = (due - date.today()).days
ExplainUrgency ==
    /\ pc = "priority_returned"
    /\ reads' = IF Get(in_task.due_date, PyNone).k = "none"
                THEN <<>> ELSE <<clock>>
    /\ pc' = "explain_urgency"
    /\ UNCHANGED <<clockFrame, clock, score, reasons>>

\* explain_choice from there to its return: the last elif reads the date
\* again when strategy == "deadline_driven" and due is a date
ExplainNotes ==
    /\ pc = "explain_urgency"
    /\ LET again == in_strategy = "deadline_driven"
                        /\ Get(in_task.due_date, PyNone).k = "date"
            today1 == IF reads = <<>> THEN clock ELSE reads[1]
       IN  /\ reads' = IF again THEN Append(reads, clock) ELSE reads
           /\ reasons' = explain_choice(in_task, in_strategy, today1, clock)
    /\ pc' = "explain_returned"
    /\ UNCHANGED <<clockFrame, clock, score>>

NextClock == Tick \/ PriorityCall \/ ExplainUrgency \/ ExplainNotes

SpecClock == InitClock /\ [][NextClock]_vars

\* calculate_priority read the date at most once and its score is the score
\* of one day
PriorityOneToday ==
    pc = "priority_returned" =>
        /\ Len(reads) <= 1
        /\ \E d \in 0..clock :
              score = calculate_priority(in_task, in_strategy, in_weights, d)

\* explain_choice returned the lines of one day
ExplainOneToday ==
    pc = "explain_returned" =>
        \E d \in 0..clock :
            reasons = explain_choice(in_task, in_strategy, d, d)

\* C12 as stated: one call of calculate_priority and one call of
\* explain_choice each read the date once (not at all without a due date),
\* and what the call returns is what one single day would give.
C12_OneTodayPerCall ==
    /\ PriorityOneToday
    /\ ExplainOneToday
    /\ pc = "explain_returned" =>
          Len(reads) = (IF Get(in_task.due_date, PyNone).k = "none"
                        THEN 0 ELSE 1)

====
